---- MODULE Spec2Model ----
(***************************************************************************)
(* A model of the chained hash map of cjxo/top-hash-map:                   *)
(*   src/unnamed/part_000  LinkedListNode, LinkedList (one bucket's chain) *)
(*   src/hash-map.js       defaultHashFunction, HashMap                    *)
(* Strings are sequences of character codes.  A LinkedList is a record of  *)
(* its three closure variables and of the nodes it keeps alive; a node is  *)
(* named by a positive address, and null is 0.  An uncaught TypeError ends *)
(* the caller, as it ends the script of src/hash-map.js lines 178-205.     *)
(***************************************************************************)
EXTENDS Integers, Sequences, FiniteSets, TLC

null == 0

(***************************************************************************)
(* The caller.  The active keys are set, overwritten and removed freely;   *)
(* the filler keys are set in a fixed order, with a fixed value, to load   *)
(* the table up to the resize threshold.                                   *)
(*   "a"  -> bucket 1 of 16, bucket  1 of 32                               *)
(*   "q"  -> bucket 1 of 16, bucket 17 of 32                               *)
(*   "ab" -> bucket 1 of 16, bucket  1 of 32                               *)
(*   ""   -> bucket 0 of 16 and of 32 (the loop of the hash never runs)    *)
(*   "b", "c", ... -> buckets 2, 3, ... of 16 and of 32                    *)
(***************************************************************************)
NumFiller == 10
NumValues == 2

ActiveKeys == { <<97>>, <<113>>, <<97, 98>> }
FillerKey(i) == IF i = 1 THEN <<>> ELSE << 96 + i >>
FillerKeys == { FillerKey(i) : i \in 1..NumFiller }
Keys == ActiveKeys \cup FillerKeys
Values == 1..NumValues

(***************************************************************************)
(* src/unnamed/part_000: LinkedListNode and LinkedList                     *)
(***************************************************************************)
LinkedListNode(key, value) == [key |-> key, value |-> value, next |-> null, prev |-> null]

LinkedList == [firstNode |-> null, lastNode |-> null, nodeCount |-> 0, heap |-> <<>>]

\* The address of a newly created object: above those of the live objects,
\* which the collector keeps packed in 1..n.
newAddress(heap) == Cardinality(DOMAIN heap) + 1

\* The objects a set of references keeps alive, through next and prev.
RECURSIVE reachable(_, _)
reachable(heap, from) ==
    LET more == from \cup (({ heap[a].next : a \in from } \cup { heap[a].prev : a \in from }) \ {null})
    IN  IF more = from THEN from ELSE reachable(heap, more)

\* Garbage collection: a list keeps alive what firstNode and lastNode reach.
\* The collector is a compacting one: it moves the live objects to the
\* addresses 1..n, keeping their order, and updates the references to them.
collect(list) ==
    LET live == reachable(list.heap, {list.firstNode, list.lastNode} \ {null})
        moved(a) == IF a = null THEN null ELSE Cardinality({ c \in live : c <= a })
        from(r) == CHOOSE a \in live : moved(a) = r
    IN  [firstNode |-> moved(list.firstNode),
         lastNode  |-> moved(list.lastNode),
         nodeCount |-> list.nodeCount,
         heap      |-> [r \in 1..Cardinality(live) |->
                           [list.heap[from(r)] EXCEPT !.next = moved(@), !.prev = moved(@)]]]

RECURSIVE searchFrom(_, _, _)
searchFrom(list, currentNode, key) ==
    IF currentNode # null /\ list.heap[currentNode].key # key
    THEN searchFrom(list, list.heap[currentNode].next, key)
    ELSE currentNode

\* search, with the scan started at the second node
search_fromSecond(list, key) ==
    searchFrom(list, IF list.firstNode = null THEN null ELSE list.heap[list.firstNode].next, key)

search(list, key) == searchFrom(list, list.firstNode, key)

\* prepend, with the new node linked after the last one
prepend_atTail(list, key, value) ==
    LET newNode == newAddress(list.heap)
        created == (newNode :> [LinkedListNode(key, value) EXCEPT !.prev = list.lastNode]) @@ list.heap
        linked  == IF list.lastNode # null
                   THEN [created EXCEPT ![list.lastNode].next = newNode]
                   ELSE created
    IN  [firstNode |-> IF list.firstNode = null THEN newNode ELSE list.firstNode,
         lastNode  |-> newNode,
         nodeCount |-> list.nodeCount + 1,
         heap      |-> linked]

\* prepend, without the back link from the old first node
prepend_noBackLink(list, key, value) ==
    LET newNode == newAddress(list.heap)
    IN  [firstNode |-> newNode,
         lastNode  |-> IF list.lastNode = null THEN newNode ELSE list.lastNode,
         nodeCount |-> list.nodeCount + 1,
         heap      |-> (newNode :> [LinkedListNode(key, value) EXCEPT !.next = list.firstNode]) @@ list.heap]

\* the node append creates and links in front of the list (lines 36-51)
prepend(list, key, value) ==
    LET newNode == newAddress(list.heap)
        created == (newNode :> [LinkedListNode(key, value) EXCEPT !.next = list.firstNode]) @@ list.heap
        linked  == IF list.firstNode # null
                   THEN [created EXCEPT ![list.firstNode].prev = newNode]
                   ELSE created
    IN  [firstNode |-> newNode,
         lastNode  |-> IF list.lastNode = null THEN newNode ELSE list.lastNode,
         nodeCount |-> list.nodeCount + 1,
         heap      |-> linked]

\* append, with the value of an existing key left as it was
append_keepsValue(list, key, value) ==
    IF search(list, key) # null THEN list ELSE prepend(list, key, value)

\* append, with the count incremented for an existing key too
append_countsOverwrite(list, key, value) ==
    LET nodeToReturn == search(list, key)
    IN  IF nodeToReturn # null
        THEN [list EXCEPT !.heap[nodeToReturn].value = value, !.nodeCount = @ + 1]
        ELSE prepend(list, key, value)

\* append, without the scan for an existing key
append_insertsAlways(list, key, value) == prepend(list, key, value)

append(list, key, value) ==
    LET nodeToReturn == search(list, key)
    IN  IF nodeToReturn # null
        THEN [list EXCEPT !.heap[nodeToReturn].value = value]
        ELSE prepend(list, key, value)

\* nodeToReturn: the node append returns
appendNode(list, key) ==
    LET nodeToReturn == search(list, key)
    IN  IF nodeToReturn # null THEN nodeToReturn ELSE newAddress(list.heap)

\* The outcome of a step that can throw: the list as the step leaves it, and
\* whether a TypeError was raised (a property of null was written).
Done(list) == [list |-> list, raised |-> FALSE]
Thrown(list) == [list |-> list, raised |-> TRUE]

\* lines 60-65, with null for node.next in the else branch
removeFront_truncates(list, node) ==
    LET n == list.heap[node]
    IN  IF n.prev = null
        THEN LET moved == [list EXCEPT !.firstNode = n.next]
             IN  IF n.next = null
                 THEN Thrown(moved)
                 ELSE Done([moved EXCEPT !.heap[n.next].prev = null])
        ELSE Done([list EXCEPT !.heap[n.prev].next = null])

\* remove, lines 60-65: unlink the node from what precedes it.
removeFront(list, node) ==
    LET n == list.heap[node]
    IN  IF n.prev = null
        THEN LET moved == [list EXCEPT !.firstNode = n.next]
             IN  IF n.next = null
                 THEN Thrown(moved)
                 ELSE Done([moved EXCEPT !.heap[n.next].prev = null])
        ELSE Done([list EXCEPT !.heap[n.prev].next = n.next])

\* remove, lines 67-72: unlink the node from what follows it.
removeBack(list, node) ==
    LET n == list.heap[node]
    IN  IF n.next = null
        THEN LET moved == [list EXCEPT !.lastNode = n.prev]
             IN  IF n.prev = null
                 THEN Thrown(moved)
                 ELSE Done([moved EXCEPT !.heap[n.prev].next = null])
        ELSE Done([list EXCEPT !.heap[n.next].prev = n.prev])

\* remove, without the decrement of nodeCount
listRemove_keepsCount(list, node) ==
    IF list.nodeCount # 0
    THEN LET front == removeFront(list, node)
             back  == removeBack(front.list, node)
         IN  IF front.raised
             THEN Thrown(collect(front.list))
             ELSE [list |-> collect(back.list), raised |-> back.raised]
    ELSE Done(list)

listRemove(list, node) ==
    IF list.nodeCount # 0
    THEN LET counted == [list EXCEPT !.nodeCount = @ - 1]
             front   == removeFront(counted, node)
             back    == removeBack(front.list, node)
         IN  IF front.raised
             THEN Thrown(collect(front.list))
             ELSE [list |-> collect(back.list), raised |-> back.raised]
    ELSE Done(list)

\* clear, with only the count reset
listClear_keepsNodes(list) == [list EXCEPT !.nodeCount = 0]

listClear(list) == collect([list EXCEPT !.firstNode = null, !.lastNode = null, !.nodeCount = 0])

\* forEach: the nodes the callback receives, in order.
RECURSIVE forEachFrom(_, _)
forEachFrom(list, currentNode) ==
    IF currentNode # null
    THEN <<currentNode>> \o forEachFrom(list, list.heap[currentNode].next)
    ELSE <<>>

\* forEach, with the loop started at the second node
forEach_skipsFirst(list) ==
    forEachFrom(list, IF list.firstNode = null THEN null ELSE list.heap[list.firstNode].next)

forEach(list) == forEachFrom(list, list.firstNode)

(***************************************************************************)
(* src/hash-map.js                                                         *)
(***************************************************************************)
primeNumber == 31
InitialBucketCount == 16

RECURSIVE hashLoop(_, _, _, _)
hashLoop(stringAsKey, bucketCount, i, hashCode) ==
    IF i <= Len(stringAsKey)
    THEN hashLoop(stringAsKey, bucketCount, i + 1,
                  (hashCode * primeNumber + stringAsKey[i]) % bucketCount)
    ELSE hashCode

\* the hash of multiplicationHashFunction (lines 49-54) in its place, with
\* the constant A cut to three decimals
defaultHashFunction_multiplication(stringAsKey, bucketCount) ==
    (bucketCount * ((hashLoop(stringAsKey, bucketCount, 1, 0) * 631) % 1000)) \div 1000

defaultHashFunction(stringAsKey, bucketCount) == hashLoop(stringAsKey, bucketCount, 1, 0)

hashFn(key, bucketCount) == defaultHashFunction(key, bucketCount)

\* buckets.length, for an array indexed from 0
bucketsLength(b) == Cardinality(DOMAIN b)

RECURSIVE lengthFrom(_, _)
lengthFrom(b, i) == IF i < bucketsLength(b) THEN b[i].nodeCount + lengthFrom(b, i + 1) ELSE 0

length(b) == lengthFrom(b, 0)

\* the threshold test, with > for >=
loadFactorAboveThreshold(b) == 4 * length(b) > 3 * bucketsLength(b)

\* loadFactor() >= 0.75.  length/buckets.length is a quotient of small integers
\* and 0.75 is a binary fraction, so the comparison of doubles is exact.
loadFactorAtLeastThreshold(b) == 4 * length(b) >= 3 * bucketsLength(b)

resize(bucketCount) == [i \in 0..(bucketCount - 1) |-> LinkedList]

listEntries(list) ==
    LET nodes == forEach(list)
    IN  [j \in 1..Len(nodes) |-> [key |-> list.heap[nodes[j]].key, value |-> list.heap[nodes[j]].value]]

RECURSIVE entriesFrom(_, _)
entriesFrom(b, i) == IF i < bucketsLength(b) THEN listEntries(b[i]) \o entriesFrom(b, i + 1) ELSE <<>>

entries(b) == entriesFrom(b, 0)

keys(b) == [j \in 1..Len(entries(b)) |-> entries(b)[j].key]

values(b) == [j \in 1..Len(entries(b)) |-> entries(b)[j].value]

RECURSIVE set(_, _, _)
RECURSIVE setEach(_, _, _)
setEach(b, elements, j) ==
    IF j <= Len(elements)
    THEN setEach(set(b, elements[j].key, elements[j].value), elements, j + 1)
    ELSE b

\* resizeBucketsIfNeeded, with the snapshot taken after the resize
resizeBucketsIfNeeded_snapshotAfterResize(b) ==
    IF loadFactorAtLeastThreshold(b)
    THEN LET resized  == resize(bucketsLength(b) * 2)
             elements == entries(resized)
         IN  setEach(resized, elements, 1)
    ELSE b

\* resizeBucketsIfNeeded, with the new array as long as the old one
resizeBucketsIfNeeded_sameSize(b) ==
    IF loadFactorAtLeastThreshold(b)
    THEN LET elements == entries(b)
         IN  setEach(resize(bucketsLength(b)), elements, 1)
    ELSE b

resizeBucketsIfNeeded(b) ==
    IF loadFactorAtLeastThreshold(b)
    THEN LET elements == entries(b)
         IN  setEach(resize(bucketsLength(b) * 2), elements, 1)
    ELSE b

\* set, with the index computed before the resize
set_hashBeforeResize(b, key, value) ==
    LET hash    == hashFn(key, bucketsLength(b))
        resized == resizeBucketsIfNeeded(b)
    IN  [resized EXCEPT ![hash] = append(@, key, value)]

set(b, key, value) ==
    LET resized == resizeBucketsIfNeeded(b)
        hash    == hashFn(key, bucketsLength(resized))
    IN  [resized EXCEPT ![hash] = append(@, key, value)]

get(b, key) ==
    LET result == search(b[hashFn(key, bucketsLength(b))], key)
    IN  IF result # null THEN b[hashFn(key, bucketsLength(b))].heap[result].value ELSE null

\* has, answered by whether the key's bucket holds anything
has_bucketNonEmpty(b, key) == b[hashFn(key, bucketsLength(b))].nodeCount # 0

has(b, key) == search(b[hashFn(key, bucketsLength(b))], key) # null

\* remove: the buckets as the call leaves them, and how it ended.
remove(b, key) ==
    LET hash     == hashFn(key, bucketsLength(b))
        toRemove == search(b[hash], key)
    IN  IF toRemove # null
        THEN LET out == listRemove(b[hash], toRemove)
             IN  [buckets |-> [b EXCEPT ![hash] = out.list],
                  ret     |-> IF out.raised THEN "TypeError" ELSE "true"]
        ELSE [buckets |-> b, ret |-> "false"]

\* clear, by building the initial array again
clear_rebuilds(b) == resize(InitialBucketCount)

clear(b) == [i \in DOMAIN b |-> listClear(b[i])]

(***************************************************************************)
(* The state: the map's buckets, and the caller's record of what it did:   *)
(* the reference key -> value map the calls describe, and the last call.   *)
(***************************************************************************)
VARIABLES buckets, ref, last

vars == <<buckets, ref, last>>

Call(op, key, value, ret) ==
    [op |-> op, key |-> key, value |-> value, ret |-> ret,
     bucketCount |-> bucketsLength(buckets),
     again |-> /\ last.op = op /\ last.key = key /\ last.value = value]

Init ==
    /\ buckets = resize(InitialBucketCount)
    /\ ref = [k \in Keys |-> null]
    /\ last = [op |-> "HashMap", key |-> <<>>, value |-> null, ret |-> "undefined",
               bucketCount |-> InitialBucketCount, again |-> FALSE]

\* An uncaught TypeError has ended the caller.
Running == last.ret # "TypeError"

Set(key, value) ==
    /\ Running
    /\ buckets' = set(buckets, key, value)
    /\ ref' = [ref EXCEPT ![key] = value]
    /\ last' = Call("set", key, value, "undefined")

\* the next filler key: the first one the caller has not set
NextFiller ==
    CHOOSE i \in 1..(NumFiller + 1) :
        /\ i = NumFiller + 1 \/ ref[FillerKey(i)] = null
        /\ \A j \in 1..(i - 1) : ref[FillerKey(j)] # null

SetActive == \E key \in ActiveKeys, value \in Values : Set(key, value)

SetFiller == NextFiller <= NumFiller /\ Set(FillerKey(NextFiller), (NextFiller % NumValues) + 1)

Remove ==
    \E key \in ActiveKeys :
        LET out == remove(buckets, key)
        IN  /\ Running
            /\ buckets' = out.buckets
            /\ ref' = [ref EXCEPT ![key] = null]
            /\ last' = Call("remove", key, null, out.ret)

Clear ==
    /\ Running
    /\ buckets' = clear(buckets)
    /\ ref' = [k \in Keys |-> null]
    /\ last' = Call("clear", <<>>, null, "undefined")

Next == SetActive \/ SetFiller \/ Remove \/ Clear

Spec == Init /\ [][Next]_vars

(***************************************************************************)
(* Properties of the map                                                   *)
(***************************************************************************)
present(b) == { k \in Keys : has(b, k) }

\* C1: the table behaves as the reference map: for every key, get returns
\* the value of the most recent set since the key was last removed or
\* cleared and has is true, or get returns null and has is false.
C1_ReferenceMap ==
    \A k \in Keys : /\ get(buckets, k) = ref[k]
                    /\ has(buckets, k) = (ref[k] # null)

\* C1's case: after a resize and a completed removal, an overwritten key.
C1_Witness ==
    /\ bucketsLength(buckets) = 2 * InitialBucketCount
    /\ last.op = "remove" /\ last.ret = "true"
    /\ \E k \in ActiveKeys : ref[k] # null /\ get(buckets, k) = 2
    /\ \E k \in FillerKeys : ref[k] # null

\* C2: remove(k) never raises; it returns true when k was present and false
\* when k was absent, whatever the place of k's entry in its chain.
C2_RemoveReturns ==
    [][last'.op = "remove" =>
          last'.ret = IF has(buckets, last'.key) THEN "true" ELSE "false"]_vars

\* C3: removing a present key makes has(k) false and length() one less;
\* removing an absent key leaves the table as it was.
C3_RemoveEffect ==
    [][last'.op = "remove" =>
          IF has(buckets, last'.key)
          THEN /\ ~has(buckets', last'.key)
               /\ length(buckets') = length(buckets) - 1
          ELSE buckets' = buckets]_vars

\* C3's case: a present key has been removed from a chain of several.
C3_Witness ==
    /\ last.op = "remove" /\ last.ret = "true"
    /\ ~has(buckets, last.key)
    /\ \E k \in ActiveKeys : has(buckets, k)

NoDuplicate(seq) == \A i, j \in 1..Len(seq) : seq[i] = seq[j] => i = j

\* C4: length() is the number of elements of keys(), keys() has no
\* duplicate, and both are the number of keys set and not since removed.
C4_LengthIsKeyCount ==
    /\ length(buckets) = Len(keys(buckets))
    /\ NoDuplicate(keys(buckets))
    /\ length(buckets) = Cardinality({ k \in Keys : ref[k] # null })

\* C4's case: several keys, after an overwrite, a removal and a resize.
C4_Witness ==
    /\ length(buckets) >= 12
    /\ bucketsLength(buckets) = 2 * InitialBucketCount
    /\ last.op = "set" /\ last.again
    /\ \E k \in ActiveKeys : ref[k] = null

\* C5: a set that resizes leaves every key that was present retrievable
\* with its value (the new one for the key being set), and the bucket count
\* is exactly twice what it was.
C5_ResizeKeepsEntries ==
    [][(last'.op = "set" /\ bucketsLength(buckets') # bucketsLength(buckets)) =>
          /\ bucketsLength(buckets') = 2 * bucketsLength(buckets)
          /\ \A k \in present(buckets) :
                get(buckets', k) = IF k = last'.key THEN last'.value ELSE get(buckets, k)]_vars

\* C5's case: a set has just resized a table that held all the other keys.
C5_Witness ==
    /\ last.op = "set"
    /\ last.bucketCount # bucketsLength(buckets)
    /\ present(buckets) = Keys

\* C6, as claimed: after a completed set the load factor is below 0.75.
C6_LoadFactorBelowAfterSet ==
    last.op = "set" => 4 * length(buckets) < 3 * bucketsLength(buckets)

\* C6, as amended: after a completed set the load factor is at most 0.75.
C6_LoadFactorAtMostAfterSet ==
    last.op = "set" => 4 * length(buckets) <= 3 * bucketsLength(buckets)

\* C6's case: a set has left the load factor at exactly 0.75.
C6_Witness ==
    last.op = "set" /\ 4 * length(buckets) = 3 * bucketsLength(buckets)

\* C7: the bucket count starts at 16; a set doubles it exactly when the
\* load factor at entry is at least 0.75 and leaves it alone otherwise; no
\* other call changes it.
C7_BucketCountSteps ==
    /\ bucketsLength(buckets) = 16
    /\ [][IF last'.op = "set" /\ 4 * length(buckets) >= 3 * bucketsLength(buckets)
          THEN bucketsLength(buckets') = 2 * bucketsLength(buckets)
          ELSE bucketsLength(buckets') = bucketsLength(buckets)]_vars

\* C7's case: the 13th insert has found 12 keys in 16 buckets, and has left
\* 13 retrievable keys in 32.
C7_Witness ==
    /\ last.op = "set" /\ last.bucketCount = 16
    /\ bucketsLength(buckets) = 32
    /\ length(buckets) = 13
    /\ Cardinality(present(buckets)) = 13

\* the buckets whose chain holds an entry with the key
bucketsOf(b, k) == { i \in DOMAIN b : \E j \in 1..Len(listEntries(b[i])) : listEntries(b[i])[j].key = k }

\* C8: every key of the table is in exactly one bucket, the one hashFn
\* gives for the current bucket count, which is an index of the array.
C8_KeysInTheirBucket ==
    /\ \A k \in Keys : hashFn(k, bucketsLength(buckets)) \in 0..(bucketsLength(buckets) - 1)
    /\ \A k \in Keys : ref[k] # null =>
          bucketsOf(buckets, k) = { hashFn(k, bucketsLength(buckets)) }
    /\ \A i \in DOMAIN buckets : \A j \in 1..Len(listEntries(buckets[i])) :
          hashFn(listEntries(buckets[i])[j].key, bucketsLength(buckets)) = i

\* C8's case: after a resize, keys that shared bucket 1 of 16 are in
\* buckets 1 and 17 of 32, and the empty string is in bucket 0.
C8_Witness ==
    /\ bucketsLength(buckets) = 32
    /\ bucketsOf(buckets, <<113>>) = {17}
    /\ bucketsOf(buckets, <<97, 98>>) = {1}
    /\ bucketsOf(buckets, <<>>) = {0}

\* C9, as claimed: a set(k, v) that repeats the call before it changes
\* nothing: length(), the bucket count and every bucket are as they were.
C9_RepeatedSetIsNoOp ==
    [][(last'.op = "set" /\ last'.again) => buckets' = buckets]_vars

\* C9, as amended: a set(k, v) that repeats the call before it changes
\* nothing when the load factor it finds is below 0.75; when it finds 0.75
\* or more it doubles the bucket count, and length() and the value of every
\* key are as they were.
C9_RepeatedSetBelowThreshold ==
    [][(last'.op = "set" /\ last'.again) =>
          IF 4 * length(buckets) < 3 * bucketsLength(buckets)
          THEN buckets' = buckets
          ELSE /\ bucketsLength(buckets') = 2 * bucketsLength(buckets)
               /\ length(buckets') = length(buckets)
               /\ \A k \in Keys : get(buckets', k) = get(buckets, k)]_vars

\* C9's case: a repeated set(k, v) on a chain of several keys, no resize.
C9_Witness ==
    /\ last.op = "set" /\ last.again
    /\ last.bucketCount = bucketsLength(buckets)
    /\ buckets[hashFn(last.key, bucketsLength(buckets))].nodeCount >= 2

\* C10: a set(k, v) that repeats the call before it leaves length() as it
\* was, and get(k) returns v.
C10_RepeatedSetKeepsLength ==
    [][(last'.op = "set" /\ last'.again) =>
          /\ length(buckets') = length(buckets)
          /\ get(buckets', last'.key) = last'.value]_vars

\* C10's case: the repeated set(k, v) is one that resized the table.
C10_Witness ==
    /\ last.op = "set" /\ last.again
    /\ last.bucketCount # bucketsLength(buckets)

\* C11: after clear(), length() is 0, keys(), values() and entries() are
\* empty, has(k) is false for every key, and the bucket count is what it
\* was before the call.
C11_ClearEmpties ==
    last.op = "clear" =>
        /\ length(buckets) = 0
        /\ keys(buckets) = <<>> /\ values(buckets) = <<>> /\ entries(buckets) = <<>>
        /\ \A k \in Keys : ~has(buckets, k)
        /\ bucketsLength(buckets) = last.bucketCount

\* C11's case: a first clear of a table that had grown to 32 buckets.
C11_Witness ==
    /\ last.op = "clear" /\ ~last.again
    /\ bucketsLength(buckets) = 2 * InitialBucketCount

\* a fresh table filled from the entries of b
rebuilt(b) == setEach(resize(InitialBucketCount), entries(b), 1)

\* C12: a fresh table given every entry of entries() by set holds the same
\* key -> value pairs as the table: the same get result for every key and
\* the same length(), whatever their bucket counts.
C12_RoundTrip ==
    LET fresh == rebuilt(buckets)
    IN  /\ \A k \in Keys : get(fresh, k) = get(buckets, k)
        /\ length(fresh) = length(buckets)

\* C12's case: the table has 32 buckets and the rebuilt one 16, with keys
\* sharing a bucket.
C12_Witness ==
    /\ bucketsLength(buckets) = 2 * InitialBucketCount
    /\ bucketsLength(rebuilt(buckets)) = InitialBucketCount
    /\ length(buckets) >= 10
    /\ has(buckets, <<97>>) /\ has(buckets, <<97, 98>>)

\* the nodes of a list, from firstNode by next
nodesOf(list) == { forEach(list)[j] : j \in 1..Len(forEach(list)) }

\* C13: a non-empty chain has head.prev and tail.next null and its tail is
\* the last entry reached from its head; an empty chain has head and tail
\* null; a.next = b exactly when b.prev = a; the count is the number of
\* entries reached from the head; no two entries have the same key.
ChainWellFormed(list) ==
    LET nodes == forEach(list)
    IN  /\ list.nodeCount = Len(nodes)
        /\ IF nodes = <<>>
           THEN list.firstNode = null /\ list.lastNode = null
           ELSE /\ list.heap[list.firstNode].prev = null
                /\ list.lastNode = nodes[Len(nodes)]
                /\ list.heap[list.lastNode].next = null
        /\ \A a, c \in nodesOf(list) : (list.heap[a].next = c) <=> (list.heap[c].prev = a)
        /\ \A i, j \in 1..Len(nodes) : list.heap[nodes[i]].key = list.heap[nodes[j]].key => i = j

C13_ChainsWellFormed == \A i \in DOMAIN buckets : ChainWellFormed(buckets[i])

\* C15: LinkedList.remove of the only entry of a chain raises no error and
\* leaves the chain as a new one: head and tail null, count 0.
C15_RemoveOnlyEntry ==
    [][LET hash == hashFn(last'.key, bucketsLength(buckets))
       IN  (/\ last'.op = "remove"
            /\ has(buckets, last'.key)
            /\ buckets[hash].nodeCount = 1)
           => (last'.ret = "true" /\ buckets'[hash] = LinkedList)]_vars

\* C14: for a key that is not present, get returns null and has returns
\* false, also when the key's bucket holds other keys.  (get, has, length,
\* keys, values and entries assign no variable of the map or of a list:
\* they are functions of the buckets, which they leave as they are.)
C14_AbsentKey ==
    \A k \in Keys : ref[k] = null => (get(buckets, k) = null /\ has(buckets, k) = FALSE)

\* C14's case: an absent key whose bucket holds two other keys.
C14_Witness ==
    /\ ref[<<113>>] = null
    /\ buckets[hashFn(<<113>>, bucketsLength(buckets))].nodeCount = 2
    /\ get(buckets, <<113>>) = null

\* C16: append(key, value) on a chain that holds the key overwrites the
\* value in place, keeps the entry's position and the count, and returns
\* that entry; otherwise the new entry is the head, its next is the old
\* head, the old head's prev is the new entry, the tail is the new entry if
\* the chain was empty, the count is one more, and the old entries keep
\* their order.  Checked on the append of every set that does not resize.
C16_Append ==
    [][(last'.op = "set" /\ bucketsLength(buckets') = bucketsLength(buckets)) =>
          LET hash     == hashFn(last'.key, bucketsLength(buckets))
              old      == buckets[hash]
              new      == buckets'[hash]
              found    == search(old, last'.key)
              returned == appendNode(old, last'.key)
              before   == listEntries(old)
              after    == listEntries(new)
          IN  /\ new.heap[returned].key = last'.key
              /\ new.heap[returned].value = last'.value
              /\ IF found # null
                 THEN /\ returned = found
                      /\ forEach(new) = forEach(old)
                      /\ new.nodeCount = old.nodeCount
                      /\ Len(after) = Len(before)
                      /\ \A j \in 1..Len(before) :
                            after[j] = IF before[j].key = last'.key
                                       THEN [key |-> last'.key, value |-> last'.value]
                                       ELSE before[j]
                 ELSE /\ new.firstNode = returned
                      /\ returned \notin DOMAIN old.heap
                      /\ new.heap[returned].next = old.firstNode
                      /\ new.heap[returned].prev = null
                      /\ old.firstNode # null => new.heap[old.firstNode].prev = returned
                      /\ new.lastNode = IF old.nodeCount = 0 THEN returned ELSE old.lastNode
                      /\ new.nodeCount = old.nodeCount + 1
                      /\ Tail(after) = before]_vars

\* C16's case: a set has overwritten the middle entry of a chain of three.
C16_Witness ==
    LET list == buckets[hashFn(last.key, bucketsLength(buckets))]
    IN  /\ last.op = "set" /\ last.again
        /\ last.bucketCount = bucketsLength(buckets)
        /\ list.nodeCount = 3
        /\ list.heap[forEach(list)[2]].key = last.key
        /\ list.heap[forEach(list)[2]].value = last.value

\* the pairs <<x, y>> of keys of one chain with x before y
chainOrder(list) ==
    LET e == listEntries(list)
    IN  { <<e[q[1]].key, e[q[2]].key>> : q \in { r \in (1..Len(e)) \X (1..Len(e)) : r[1] < r[2] } }

\* the pairs <<x, y>> of keys that share a bucket, x before y in keys(),
\* values() and entries()
tableOrder(b) ==
    UNION { chainOrder(b[i]) : i \in { h \in DOMAIN b : b[h].firstNode # null } }

reversed(p) == <<p[2], p[1]>>

\* the key a set call inserts comes before the keys of its bucket
NewestLeads(before, after) ==
    (last'.op = "set" /\ ~has(buckets, last'.key)) => \A p \in after : p[2] # last'.key

\* two keys that share a bucket after a call, and were both present before
\* it, shared one before it
StayTogether(before, after) ==
    \A p \in after :
        (has(buckets, p[1]) /\ has(buckets, p[2])) => (p \in before \/ reversed(p) \in before)

\* C17, as claimed: of two keys that share a bucket, the one inserted by
\* the later set call comes first in keys(), values() and entries().  As an
\* induction over the calls: the key a set call inserts comes before the
\* keys of its bucket, and two keys that a call neither inserts nor removes
\* keep their order.
C17_NewestFirst ==
    [][LET before == tableOrder(buckets)
           after  == tableOrder(buckets')
       IN  /\ NewestLeads(before, after)
           /\ StayTogether(before, after)
           /\ \A p \in before : (p \in after \/ reversed(p) \in after) => p \in after]_vars

\* C17, as amended: the key a set call inserts comes before the keys of
\* its bucket; a call that does not resize keeps the order of the other
\* keys; a set call that resizes reverses the order of every two earlier
\* keys that still share a bucket.
C17_NewestFirstUntilResize ==
    [][LET before == tableOrder(buckets)
           after  == tableOrder(buckets')
       IN  /\ NewestLeads(before, after)
           /\ StayTogether(before, after)
           /\ \A p \in before :
                 (p \in after \/ reversed(p) \in after) =>
                     IF bucketsLength(buckets') = bucketsLength(buckets)
                     THEN p \in after
                     ELSE reversed(p) \in after]_vars

\* C17's case: a set of another key has resized a table in which "a" and
\* "ab" shared a bucket, and they still share one.
C17_Witness ==
    /\ last.op = "set" /\ last.bucketCount # bucketsLength(buckets)
    /\ last.key \notin { <<97>>, <<97, 98>> }
    /\ \E p \in tableOrder(buckets) : { p[1], p[2] } = { <<97>>, <<97, 98>> }

\* n is the initial bucket count doubled some number of times
RECURSIVE Doubled(_)
Doubled(n) == n = InitialBucketCount \/ (n > InitialBucketCount /\ n % 2 = 0 /\ Doubled(n \div 2))

\* C18: between calls the load factor is at most 0.75, and the bucket
\* count is 16 doubled some number of times.
C18_LoadFactorAtMost ==
    /\ 4 * length(buckets) <= 3 * bucketsLength(buckets)
    /\ Doubled(bucketsLength(buckets))

\* C18's case: 12 keys in 16 buckets, the three colliding keys among them.
C18_Witness ==
    /\ length(buckets) = 12 /\ bucketsLength(buckets) = 16
    /\ \A k \in ActiveKeys : has(buckets, k)

\* C19: set(k, v) and remove(k) change has and get of no other key, also
\* when the set resizes and when the keys share a bucket.
C19_OtherKeysUnchanged ==
    [][last'.op \in {"set", "remove"} =>
          \A k \in Keys \ {last'.key} :
              /\ has(buckets', k) = has(buckets, k)
              /\ get(buckets', k) = get(buckets, k)]_vars

\* C19's case: "q" has been removed from the chain of three in bucket 1
\* of 16, and the other two keys are present with their values.
C19_Witness ==
    LET list == buckets[hashFn(last.key, bucketsLength(buckets))]
    IN  /\ last.op = "remove" /\ last.ret = "true"
        /\ last.key = <<113>>
        /\ list.nodeCount = 2
        /\ ref[<<97>>] # ref[<<97, 98>>]
        /\ get(buckets, <<97>>) = ref[<<97>>] /\ get(buckets, <<97, 98>>) = ref[<<97, 98>>]

\* the strings and bucket counts the hash is evaluated on
MaxHashLen == 3
MaxHashBuckets == 40
HashCodes == { 0, 97, 98, 113, 65535 }
HashStrings == UNION { [1..n -> HashCodes] : n \in 0..MaxHashLen }

\* defaultHashFunction(key, 2m) mod m = defaultHashFunction(key, m)
HashHalves ==
    \A s \in HashStrings : \A m \in 1..MaxHashBuckets :
        defaultHashFunction(s, 2 * m) % m = defaultHashFunction(s, m)

\* C20: defaultHashFunction(key, 2m) mod m = defaultHashFunction(key, m);
\* so a resize from m to 2m buckets puts every entry of bucket i in bucket
\* i or i + m, and two keys that share a bucket after it shared one before.
C20_ResizeSplitsBuckets ==
    [][/\ HashHalves
       /\ bucketsLength(buckets') = 2 * bucketsLength(buckets) =>
             LET m == bucketsLength(buckets)
                 old(k) == hashFn(k, m)
                 new(k) == hashFn(k, 2 * m)
             IN  /\ \A k \in present(buckets) :
                       /\ bucketsOf(buckets, k) = { old(k) }
                       /\ bucketsOf(buckets', k) = { new(k) }
                       /\ new(k) \in { old(k), old(k) + m }
                 /\ \A x, y \in present(buckets) : new(x) = new(y) => old(x) = old(y)]_vars

\* C20's case: a resize has split bucket 1 of 16: "a" and "ab" are in
\* bucket 1 of 32 and "q" is in bucket 17.
C20_Witness ==
    /\ last.op = "set" /\ last.bucketCount = 16 /\ bucketsLength(buckets) = 32
    /\ buckets[1].nodeCount = 2 /\ buckets[17].nodeCount = 1
    /\ defaultHashFunction(<<113>>, 32) = 17 /\ defaultHashFunction(<<113>>, 16) = 1

====
